---- MODULE Spec2Model ----
(***************************************************************************)
(* Tenant provisioning and schema migration of the multi-tenant demo:      *)
(* TenantManager.createTenant / applyTenantMigrations / dropTenant         *)
(* (src/src/db/config/tenant-manager.ts, lines 119-320), the fleet script  *)
(* migrateTenants (src/src/scripts/migrate-tenants.ts), the connection     *)
(* cache getTenantDb (src/src/contexts/tenant-provider.tsx, lines 44-71)   *)
(* and the organization.created webhook with its slug fallback             *)
(* (src/src/app/api/webhooks/clerk/route.ts, lines 59-119).                *)
(*                                                                         *)
(* Strings whose characters matter (slugs, schema names, display names)    *)
(* are sequences of one-character strings.  A migration filename is the    *)
(* number of its zero-padded prefix, so that the lexicographic order of    *)
(* Array.sort() is the numeric order; directory entry 0 is the entry that  *)
(* does not end in ".sql".  Every step of a call is one database           *)
(* statement together with the synchronous code that follows it.           *)
(***************************************************************************)
EXTENDS Naturals, Sequences, FiniteSets, TLC

\* ------------------------------------------------------------------ bounds
MaxFiles == 2
MaxCalls == 3
MaxFaults == 2
MaxNameLen == 3

\* --------------------------------------------------------- program constants
\* '0000_steep_hedge_knight.sql', the baseline the fleet script marks.
Baseline == 1

Procs == {1, 2}
SeqProcs == {1}
Ids == {"org1", "org2"}
Names == {"N1", "N2"}
Slugs == {<<"a", "-", "b">>, <<"a", "_", "b">>, <<"c">>}
ConcSlugs == {<<"a", "-", "b">>}
ConcNames == {"N1"}
\* evt.data.created_by: a Clerk user id, or none
CreatedBy == {"u1", ""}
\* auth().userId: a Clerk user id, or none
UserIds == {"", "u1", "u2"}
\* auth().orgSlug and the x-current-tenant header: a slug, or none
OptSlugs == {<<>>} \cup Slugs

VARIABLES
    tenants,            \* public.tenants: a set of rows
    schemas,            \* the physical schemas that exist
    trackTables,        \* the schemas that hold a "_migrations" table
    applied,            \* schema -> filenames recorded in its "_migrations"
    tables,             \* schema -> files whose DDL is in effect in it
    nfiles,             \* src/db/migrations/tenant holds files 1..nfiles
    tenantConnections,  \* getTenantDb's Map: schema name -> its pool, 0 if none
    proc,               \* each call in progress: position and locals
    faults,             \* database / filesystem failures injected so far
    calls,              \* calls started so far
    hist,               \* history (ghost): per schema, and the last call
    hook,               \* the webhook's slug fallback: name and result
    users,              \* schema -> ids of the rows of its "users" table
    pools               \* the pools made and ended, the Map's insertion order

vars == <<tenants, schemas, trackTables, applied, tables, nfiles,
          tenantConnections, proc, faults, calls, hist, hook, users, pools>>

\* ------------------------------------------------------------ pure functions
TenantPrefix == <<"t", "e", "n", "a", "n", "t", "_">>

\* slug.replace(/-/g, "_")
DashToUnderscore(slug) ==
    [i \in 1..Len(slug) |-> IF slug[i] = "-" THEN "_" ELSE slug[i]]

\* `tenant_${slug.replace(/-/g, "_")}`
SchemaNameOf(slug) == TenantPrefix \o DashToUnderscore(slug)

SchemaNames == {SchemaNameOf(s) : s \in Slugs}

RECURSIVE SortedDescending(_)
\* (mutation) the listing in descending order
SortedDescending(S) ==
    IF S = {} THEN <<>>
    ELSE LET m == CHOOSE x \in S : \A y \in S : y <= x
         IN <<m>> \o SortedDescending(S \ {m})

RECURSIVE SortedSeq(_)
\* Array.prototype.sort() on filenames
SortedSeq(S) ==
    IF S = {} THEN <<>>
    ELSE LET m == CHOOSE x \in S : \A y \in S : x <= y
         IN <<m>> \o SortedSeq(S \ {m})

\* readdirSync(migrationsPath): the .sql files and one other entry
DirEntries(n) == 0..n

EndsWithSql(e) == e > 0

\* readdirSync(...).filter(file => file.endsWith(".sql")).sort()
MigrationFiles(n) == SortedSeq({e \in DirEntries(n) : EndsWithSql(e)})

SeqRange(q) == {q[i] : i \in 1..Len(q)}

\* ------------------------------------------------------------------ registry
\* getTenantByClerkOrgId: the rows with that primary key (at most one)
RowsById(id) == {r \in tenants : r.id = id}

\* getTenantBySlug
RowsBySlug(slug) == {r \in tenants : r.slug = slug}

\* (mutation) only the primary key is enforced
InsertAllowedById(row) == \A r \in tenants : r.id # row.id

\* tenants.ts: id primary key, slug unique, schema_name unique
InsertAllowed(row) ==
    \A r \in tenants :
        r.id # row.id /\ r.slug # row.slug /\ r.schemaName # row.schemaName

\* ------------------------------------------------------------------- locals
NoRes == [status |-> "none", schemaName |-> <<>>, existing |-> FALSE]

NoCall == [id |-> "", ok |-> FALSE, schemaName |-> <<>>]

\* no organization.created delivery yet
NoHook == [id |-> "", slug |-> <<>>, by |-> "", resp |-> 0]

Idle ==
    [pc |-> "idle", op |-> "none", id |-> "", name |-> "", slug |-> <<>>,
     schemaName |-> <<>>, target |-> <<>>, files |-> <<>>, appliedSet |-> {},
     i |-> 0, err |-> "none", res |-> NoRes, conn |-> 0,
     \* webhook
     caller |-> "none", createdBy |-> "", resp |-> 0,
     \* fleet run
     todo |-> <<>>, k |-> 0, hasExistingTables |-> FALSE,
     \* ghost
     pre |-> {}, preSchemas |-> {}, path |-> "none", inserted |-> FALSE,
     dropped |-> FALSE, inRun |-> FALSE, failAt |-> 0, trackBefore |-> {}, ran |-> <<>>,
     prevOk |-> FALSE, prevCall |-> NoCall, faulted |-> FALSE,
     attempted |-> {}, failedAt |-> {}, migrated |-> {}, hit |-> FALSE,
     prevHook |-> NoHook, resumed |-> FALSE, stale |-> FALSE,
     \* getApiTenantContext
     userId |-> "", orgSlug |-> <<>>, tenantSlug |-> <<>>, tenantDb |-> 0]

Set(p, r) == proc' = [proc EXCEPT ![p] = r]

\* A database or filesystem operation may fail for a reason of its own.
Fault == faults < MaxFaults /\ faults' = faults + 1

NoFault == faults' = faults

AllIdle == \A q \in Procs : proc[q].pc = "idle"

SchemaHist(s) == hist.of[s]

\* History of one physical schema since it was created (ghost): how often each
\* file's SQL ran to completion in it, the listing length of the last run if
\* that run succeeded (0 otherwise), whether every run so far succeeded, and
\* the number of runs that ended.
FreshSchema ==
    [execCount |-> [f \in 1..MaxFiles |-> 0], lastOk |-> 0, clean |-> TRUE,
     runs |-> 0]

\* ---------------------------------------------------------------------- Init
Init ==
    /\ tenants = {}
    /\ schemas = {}
    /\ trackTables = {}
    /\ applied = [s \in SchemaNames |-> {}]
    /\ tables = [s \in SchemaNames |-> {}]
    /\ nfiles = 1
    /\ tenantConnections = [s \in SchemaNames |-> 0]
    /\ proc = [p \in Procs |-> Idle]
    /\ faults = 0
    /\ calls = 0
    /\ hist = [of |-> [s \in SchemaNames |-> FreshSchema], last |-> NoCall,
               lastHook |-> NoHook]
    /\ hook = [name |-> <<>>, slug |-> <<>>, schemaName |-> <<>>, given |-> TRUE]
    /\ users = [s \in SchemaNames |-> {}]
    /\ pools = [made |-> [s \in SchemaNames |-> 0], ended |-> {}, order |-> <<>>,
                iter |-> 0]

\* --------------------------------------------------------------- getTenantDb
\* A pool is named by its schema name and its rank among the pools created for
\* that name: postgres(DATABASE_URL, {connection: {search_path}}) creates the
\* next one.
NewPool(s) == pools.made[s] + 1

\* (mutation) the Map is never found to hold the name
CacheHasNever(s) == FALSE

\* tenantConnections.has(schemaName)
CacheHas(s) == tenantConnections[s] # 0

\* tenant-provider.tsx line 52-64: the Map after getTenantDb(s)
GetTenantDb(s) ==
    IF ~CacheHas(s)
    THEN [tenantConnections EXCEPT ![s] = NewPool(s)]
    ELSE tenantConnections

\* the pools made and the insertion order of the Map after getTenantDb(s)
PoolsAfterGet(s) ==
    IF ~CacheHas(s)
    THEN [pools EXCEPT !.made[s] = NewPool(s),
                       !.order = IF s \in SeqRange(@) THEN @ ELSE Append(@, s)]
    ELSE pools

\* tenantConnections.get(schemaName)!: the pool the call hands out
PoolOf(s) == GetTenantDb(s)[s]

\* ------------------------------------------------------- shared step helpers
\* The kind of the error object that leaves createTenant when the statement
\* `step` has failed: the rejection of a db / tenantDb statement is rethrown
\* as it is (line 256, 275, 172); only the directory failure is replaced, by
\* new Error("Migration directory not accessible") (line 207).
ErrorKind(step) == IF step = "readdir" THEN "Error" ELSE "QueryError"

\* An error reaches createTenant's catch block (line 166).
Thrown(r, step, injected) ==
    [r EXCEPT !.pc = "ct_catch", !.err = step,
              !.faulted = r.faulted \/ injected]

\* The call ends by returning `res` or by rethrowing.
Ended(r, res) == [r EXCEPT !.pc = "done", !.res = res]

Failure == [status |-> "error", schemaName |-> <<>>, existing |-> FALSE]

Success(r) ==
    [status |-> "ok", schemaName |-> r.target,
     existing |-> r.path \in {"existing", "remap"}]

\* the last run that ended on schema s ended with an error (ghost)
PrevRunFailed(s) == SchemaHist(s).runs >= 1 /\ SchemaHist(s).lastOk = 0

\* Bookkeeping when a run on schema s ends (ghost).
HistRun(h, s, ok, n) ==
    [h EXCEPT !.of[s] = [@ EXCEPT !.lastOk = IF ok THEN n ELSE 0,
                                  !.clean = @ /\ ok,
                                  !.runs = @ + 1]]

\* Bookkeeping when a call ends (ghost): the run it made on its target, and
\* for a createTenant call that returned, what it returned.
HistAtEnd(h, r, rows, live) ==
    LET ok == r.res.status \in {"ok", "exit0"}
        h1 == IF r.inRun /\ r.target \in live
              THEN HistRun(h, r.target, ok, Len(r.files))
              ELSE h
    IN IF r.op = "create"
       THEN [h1 EXCEPT !.last = IF ok THEN [id |-> r.id, ok |-> TRUE,
                                            schemaName |-> r.res.schemaName]
                                ELSE NoCall]
       ELSE h1

\* (mutation) the loop takes the last pending file first
NextPendingLast(files, appliedSet, i) ==
    LET later == {j \in (i + 1)..Len(files) : files[j] \notin appliedSet}
    IN IF later = {} THEN 0 ELSE CHOOSE j \in later : \A k \in later : k <= j

\* (mutation) the loop starts one file too late
NextPendingSkipsOne(files, appliedSet, i) ==
    LET later == {j \in (i + 2)..Len(files) : files[j] \notin appliedSet}
    IN IF later = {} THEN 0 ELSE CHOOSE j \in later : \A k \in later : j <= k

\* for (const migrationFile of migrationFiles) { if (appliedSet.has(...)) continue
\* the index of the first file after position i that is not in appliedSet, or 0
NextPending(files, appliedSet, i) ==
    LET later == {j \in (i + 1)..Len(files) : files[j] \notin appliedSet}
    IN IF later = {} THEN 0 ELSE CHOOSE j \in later : \A k \in later : j <= k

\* tenantDb.execute(tenantSql): the baseline is CREATE TABLE "users" ..., which
\* fails when the table exists; the statement runs in the schema of the search
\* path, which must exist.
CanExecute(s, f) ==
    s \in schemas /\ ~(f = Baseline /\ Baseline \in tables[s])

\* INSERT INTO "_migrations" (filename): the table must exist, filename is UNIQUE
CanRecord(s, f) == s \in trackTables /\ f \notin applied[s]

\* (mutation) the name derived from the slug of this call
ExistingSchemaFromSlug(r, e) == r.schemaName

\* line 127-131 / 146-150: existingTenantById.schemaName, existingTenantBySlug.schemaName
ExistingSchema(r, e) == e.schemaName

\* (mutation) every listed file is taken as recorded
AppliedRowsAll(s) == 1..nfiles

\* (mutation) the rows of the tracking table are not read
AppliedRowsNone(s) == {}

\* line 223-229: SELECT filename FROM "<schema>"."_migrations"
AppliedRows(s) == applied[s]

\* (mutation) the rollback runs after every failure
CatchDropsAlways(r) == TRUE

\* line 168-169: if (!existingTenant)
CatchDrops(r) == RowsById(r.id) = {}

\* ------------------------------------------------------------- createTenant
\* line 119-134: the call's locals, and getTenantByClerkOrgId(clerkOrgId)
StartCreate(p, r0, id, name, slug) ==
    LET r == [r0 EXCEPT !.op = "create", !.id = id, !.name = name,
                        !.slug = slug, !.schemaName = SchemaNameOf(slug),
                        !.pre = tenants, !.preSchemas = schemas,
                        !.prevCall = hist.last]
    IN \/ /\ Fault
          /\ Set(p, Thrown(r, "lookup_id", TRUE))
       \/ /\ NoFault
          /\ IF RowsById(id) # {}
             THEN LET e == CHOOSE x \in RowsById(id) : TRUE
                  IN Set(p, [r EXCEPT !.pc = "ct_schema", !.path = "existing",
                                      !.target = ExistingSchema(r, e)])
             ELSE Set(p, [r EXCEPT !.pc = "ct_lookup_slug"])

\* line 119-134: a call starts and looks its identity up
CreateTenant(p, ids, names, slugs) ==
    /\ proc[p].pc = "idle"
    /\ calls < MaxCalls
    /\ calls' = calls + 1
    /\ \E id \in ids, name \in names, slug \in slugs :
          StartCreate(p, Idle, id, name, slug)
    /\ UNCHANGED <<tenants, schemas, trackTables, applied, tables, nfiles,
                   tenantConnections, hist, hook, users, pools>>

\* line 136-138: getTenantBySlug(slug)
CtLookupBySlug(p) ==
    LET r == proc[p]
    IN /\ r.pc = "ct_lookup_slug"
       /\ \/ /\ Fault
             /\ Set(p, Thrown(r, "lookup_slug", TRUE))
          \/ /\ NoFault
             /\ IF RowsBySlug(r.slug) # {}
                THEN LET e == CHOOSE x \in RowsBySlug(r.slug) : TRUE
                     IN Set(p, [r EXCEPT !.pc = "ct_update",
                                         !.target = ExistingSchema(r, e)])
                ELSE Set(p, [r EXCEPT !.pc = "ct_insert"])
       /\ UNCHANGED <<tenants, schemas, trackTables, applied, tables, nfiles,
                      tenantConnections, calls, hist, hook, users, pools>>

\* (mutation) the update also rewrites the slug
RemapRewritesSlug(r) ==
    {IF x.slug = r.slug
     THEN [x EXCEPT !.id = r.id, !.name = r.name, !.slug = DashToUnderscore(@)]
     ELSE x : x \in tenants}

\* (mutation) the update leaves the row as it is
RemapUnchanged(r) == tenants

\* line 141-143: UPDATE tenants SET id, name, updated_at WHERE slug = slug
Remap(r) ==
    {IF x.slug = r.slug THEN [x EXCEPT !.id = r.id, !.name = r.name] ELSE x :
        x \in tenants}

\* the update keeps the primary key unique
RemapAllowed(r) == \A x \in tenants : x.id = r.id => x.slug = r.slug

CtUpdate(p) ==
    LET r == proc[p]
    IN /\ r.pc = "ct_update"
       /\ \/ /\ Fault
             /\ Set(p, Thrown(r, "update", TRUE))
             /\ UNCHANGED tenants
          \/ /\ NoFault
             /\ IF RemapAllowed(r)
                THEN /\ tenants' = Remap(r)
                     /\ Set(p, [r EXCEPT !.pc = "ct_schema", !.path = "remap"])
                ELSE /\ Set(p, Thrown(r, "update", FALSE))
                     /\ UNCHANGED tenants
       /\ UNCHANGED <<schemas, trackTables, applied, tables, nfiles,
                      tenantConnections, calls, hist, hook, users, pools>>

\* line 155-160: db.insert(tenants).values({id, name, slug, schemaName})
CtInsert(p) ==
    LET r == proc[p]
        row == [id |-> r.id, name |-> r.name, slug |-> r.slug,
                schemaName |-> r.schemaName]
    IN /\ r.pc = "ct_insert"
       /\ \/ /\ Fault
             /\ Set(p, Thrown(r, "insert", TRUE))
             /\ UNCHANGED tenants
          \/ /\ NoFault
             /\ IF InsertAllowed(row)
                THEN /\ tenants' = tenants \cup {row}
                     /\ Set(p, [r EXCEPT !.pc = "ct_schema", !.path = "new",
                                         !.inserted = TRUE,
                                         !.target = r.schemaName])
                ELSE /\ Set(p, Thrown(r, "insert", FALSE))
                     /\ UNCHANGED tenants
       /\ UNCHANGED <<schemas, trackTables, applied, tables, nfiles,
                      tenantConnections, calls, hist, hook, users, pools>>

\* line 127 / 146 / 162: CREATE SCHEMA IF NOT EXISTS, then the start of
\* applyTenantMigrations (line 176-211): readdirSync, filter, sort, getTenantDb
CtCreateSchema(p) ==
    LET r == proc[p]
    IN /\ r.pc = "ct_schema"
       /\ \/ /\ Fault
             /\ Set(p, Thrown(r, "create_schema", TRUE))
             /\ UNCHANGED <<schemas, tenantConnections, pools>>
          \/ /\ Fault
             /\ schemas' = schemas \cup {r.target}
             /\ Set(p, Thrown([r EXCEPT !.inRun = TRUE], "readdir", TRUE))
             /\ UNCHANGED <<tenantConnections, pools>>
          \/ /\ NoFault
             /\ schemas' = schemas \cup {r.target}
             /\ tenantConnections' = GetTenantDb(r.target)
             /\ pools' = PoolsAfterGet(r.target)
             /\ Set(p, [r EXCEPT !.pc = "am_table", !.inRun = TRUE,
                                 !.files = MigrationFiles(nfiles),
                                 !.conn = PoolOf(r.target),
                                 !.hit = CacheHas(r.target)])
       /\ UNCHANGED <<tenants, trackTables, applied, tables, nfiles, calls,
                      hist, hook, users>>

\* line 214-220: CREATE TABLE IF NOT EXISTS "<schema>"."_migrations"
AmCreateTable(p) ==
    LET r == proc[p]
    IN /\ r.pc = "am_table"
       /\ \/ /\ Fault
             /\ Set(p, Thrown(r, "create_table", TRUE))
             /\ UNCHANGED trackTables
          \/ /\ NoFault
             /\ IF r.target \in schemas
                THEN /\ trackTables' = trackTables \cup {r.target}
                     /\ Set(p, [r EXCEPT !.pc = "am_select"])
                ELSE /\ Set(p, Thrown(r, "create_table", FALSE))
                     /\ UNCHANGED trackTables
       /\ UNCHANGED <<tenants, schemas, applied, tables, nfiles,
                      tenantConnections, calls, hist, hook, users, pools>>

\* (mutation) the loop goes to the record of the next file without executing it
ContinueSkipsExecute(r, i) ==
    LET j == NextPending(r.files, r.appliedSet, i)
    IN IF j = 0 THEN Ended(r, Success(r))
       ELSE [r EXCEPT !.pc = "am_record", !.i = j]

\* The loop of line 232-263 from position i on: the next file to run, or the
\* successful return of createTenant when none is left.
Continue(r, i) ==
    LET j == NextPending(r.files, r.appliedSet, i)
    IN IF j = 0 THEN Ended(r, Success(r))
       ELSE [r EXCEPT !.pc = "am_execute", !.i = j]

\* line 222-229: SELECT filename FROM "_migrations" into appliedSet
AmSelectApplied(p) ==
    LET r == proc[p]
        s == r.target
    IN /\ r.pc = "am_select"
       /\ \/ /\ Fault
             /\ Set(p, Thrown(r, "select", TRUE))
             /\ UNCHANGED hist
          \/ /\ NoFault
             /\ IF s \in trackTables
                THEN LET r1 == [r EXCEPT !.appliedSet = AppliedRows(s),
                                         !.trackBefore = applied[s],
                                         !.prevOk = (SchemaHist(s).lastOk = Len(r.files)),
                                         !.resumed = PrevRunFailed(s)]
                         r2 == Continue(r1, 0)
                     IN /\ Set(p, r2)
                        /\ hist' = IF r2.pc = "done"
                                   THEN HistAtEnd(hist, r2, tenants, schemas)
                                   ELSE hist
                ELSE /\ Set(p, Thrown(r, "select", FALSE))
                     /\ UNCHANGED hist
       /\ UNCHANGED <<tenants, schemas, trackTables, applied, tables, nfiles,
                      tenantConnections, calls, hook, users, pools>>

\* (mutation) the failure is logged and the loop goes on to the record
ExecuteFailureSwallowed(r, f, injected) ==
    [r EXCEPT !.failAt = f, !.pc = "am_record"]

\* line 254-257: catch (migrationError) { ...; throw migrationError }
ExecuteFailed(r, f, injected) ==
    Thrown([r EXCEPT !.failAt = f], "execute", injected)

\* line 240-257: read the file, substitute the schema name, execute it
AmExecute(p) ==
    LET r == proc[p]
        s == r.target
        f == r.files[r.i]
        r1 == [r EXCEPT !.ran = Append(r.ran, f)]
    IN /\ r.pc = "am_execute"
       /\ \/ /\ Fault
             /\ Set(p, ExecuteFailed(r1, f, TRUE))
             /\ UNCHANGED <<tables, hist>>
          \/ /\ NoFault
             /\ IF CanExecute(s, f)
                THEN /\ tables' = [tables EXCEPT ![s] = @ \cup {f}]
                     /\ hist' = [hist EXCEPT !.of[s].execCount[f] = @ + 1]
                     /\ Set(p, [r1 EXCEPT !.pc = "am_record"])
                ELSE /\ Set(p, ExecuteFailed(r1, f, FALSE))
                     /\ UNCHANGED <<tables, hist>>
       /\ UNCHANGED <<tenants, schemas, trackTables, applied, nfiles,
                      tenantConnections, calls, hook, users, pools>>

\* line 259-262: INSERT INTO "<schema>"."_migrations" (filename) VALUES ($1)
AmRecord(p) ==
    LET r == proc[p]
        s == r.target
        f == r.files[r.i]
    IN /\ r.pc = "am_record"
       /\ \/ /\ Fault
             /\ Set(p, Thrown([r EXCEPT !.failAt = f], "record", TRUE))
             /\ UNCHANGED <<applied, hist>>
          \/ /\ NoFault
             /\ IF CanRecord(s, f)
                THEN LET r2 == Continue(r, r.i)
                     IN /\ applied' = [applied EXCEPT ![s] = @ \cup {f}]
                        /\ Set(p, r2)
                        /\ hist' = IF r2.pc = "done"
                                   THEN HistAtEnd(hist, r2, tenants, schemas)
                                   ELSE hist
                ELSE /\ Set(p, Thrown([r EXCEPT !.failAt = f], "record", FALSE))
                     /\ UNCHANGED <<applied, hist>>
       /\ UNCHANGED <<tenants, schemas, trackTables, tables, nfiles,
                      tenantConnections, calls, hook, users, pools>>

\* line 166-173: catch: look the identity up again; drop only if it is absent
CtCatch(p) ==
    LET r == proc[p]
    IN /\ r.pc = "ct_catch"
       /\ \/ /\ Fault
             /\ LET r2 == Ended([r EXCEPT !.err = "catch_lookup",
                                          !.faulted = TRUE], Failure)
                IN /\ Set(p, r2)
                   /\ hist' = HistAtEnd(hist, r2, tenants, schemas)
          \/ /\ NoFault
             /\ IF CatchDrops(r)
                THEN /\ Set(p, [r EXCEPT !.pc = "dt_drop"])
                     /\ UNCHANGED hist
                ELSE LET r2 == Ended(r, Failure)
                     IN /\ Set(p, r2)
                        /\ hist' = HistAtEnd(hist, r2, tenants, schemas)
       /\ UNCHANGED <<tenants, schemas, trackTables, applied, tables, nfiles,
                      tenantConnections, calls, hook, users, pools>>

\* line 313-315: DROP SCHEMA IF EXISTS "<schemaName>" CASCADE; an error is
\* logged by dropTenant and the original error is rethrown
DtDropSchema(p) ==
    LET r == proc[p]
        s == r.schemaName
    IN /\ r.pc = "dt_drop"
       /\ \/ /\ Fault
             /\ LET r2 == Ended([r EXCEPT !.faulted = TRUE], Failure)
                IN /\ Set(p, r2)
                   /\ hist' = HistAtEnd(hist, r2, tenants, schemas)
             /\ UNCHANGED <<schemas, trackTables, applied, tables, users>>
          \/ /\ NoFault
             /\ schemas' = schemas \ {s}
             /\ trackTables' = trackTables \ {s}
             /\ applied' = [applied EXCEPT ![s] = {}]
             /\ tables' = [tables EXCEPT ![s] = {}]
             /\ users' = [users EXCEPT ![s] = {}]
             /\ hist' = [hist EXCEPT !.of[s] = FreshSchema]
             /\ Set(p, [r EXCEPT !.pc = "dt_delete", !.dropped = TRUE])
       /\ UNCHANGED <<tenants, nfiles, tenantConnections, calls, hook, pools>>

\* line 316: DELETE FROM tenants WHERE schema_name = schemaName
DtDeleteRow(p) ==
    LET r == proc[p]
    IN /\ r.pc = "dt_delete"
       /\ \/ /\ Fault
             /\ LET r2 == Ended([r EXCEPT !.faulted = TRUE], Failure)
                IN /\ Set(p, r2)
                   /\ hist' = HistAtEnd(hist, r2, tenants, schemas)
             /\ UNCHANGED tenants
          \/ /\ NoFault
             /\ tenants' = {x \in tenants : x.schemaName # r.schemaName}
             /\ LET r2 == Ended(r, Failure)
                IN /\ Set(p, r2)
                   /\ hist' = HistAtEnd(hist, r2, tenants', schemas)
       /\ UNCHANGED <<schemas, trackTables, applied, tables, nfiles,
                      tenantConnections, calls, hook, users, pools>>


\* ----------------------------------------------------------- migrateTenants
Exit0 == [status |-> "exit0", schemaName |-> <<>>, existing |-> FALSE]

\* (mutation) the catch block falls through to the finally block's status
CatchExitsZero == [status |-> "exit0", schemaName |-> <<>>, existing |-> FALSE]

Exit1 == [status |-> "exit1", schemaName |-> <<>>, existing |-> FALSE]

\* line 109-111: any error of the run lands in the one catch: process.exit(1)
Crashed(r, step, injected) ==
    Ended([r EXCEPT !.err = step, !.faulted = r.faulted \/ injected,
                    !.failedAt = IF r.k = 0 THEN {} ELSE {r.target}], Exit1)

\* the orders in which SELECT * FROM tenants may return the rows
Orders(S) ==
    {q \in [1..Cardinality(S) -> S] : \A a, b \in 1..Cardinality(S) : q[a] = q[b] => a = b}

\* line 31-35: the next tenant of the loop and its getTenantDb call, or the end
\* of the run (line 108, then the finally block: process.exit(0))
NextTenant(r) ==
    IF r.k < Len(r.todo)
    THEN [r EXCEPT !.pc = "mt_schema", !.k = r.k + 1,
                   !.target = r.todo[r.k + 1].schemaName,
                   !.appliedSet = {}, !.i = 0, !.inRun = FALSE,
                   !.hasExistingTables = FALSE, !.ran = <<>>, !.prevOk = FALSE,
                   !.resumed = FALSE, !.trackBefore = {},
                   !.attempted = r.attempted \cup {r.todo[r.k + 1].schemaName},
                   !.conn = PoolOf(r.todo[r.k + 1].schemaName),
                   !.hit = CacheHas(r.todo[r.k + 1].schemaName)]
    ELSE Ended(r, Exit0)

\* line 13-35: getAllTenants, the empty case, readdirSync, the first tenant
MigrateTenants(p) ==
    /\ proc[p].pc = "idle"
    /\ calls < MaxCalls
    /\ calls' = calls + 1
    /\ LET r == [Idle EXCEPT !.op = "fleet", !.pre = tenants,
                             !.preSchemas = schemas]
       IN \/ /\ Fault
             /\ Set(p, Crashed(r, "list", TRUE))
             /\ UNCHANGED <<tenantConnections, pools>>
          \/ /\ NoFault
             /\ tenants = {}
             /\ Set(p, Ended(r, Exit0))
             /\ UNCHANGED <<tenantConnections, pools>>
          \/ /\ Fault
             /\ tenants # {}
             /\ Set(p, Crashed(r, "readdir", TRUE))
             /\ UNCHANGED <<tenantConnections, pools>>
          \/ /\ NoFault
             /\ tenants # {}
             /\ \E q \in Orders(tenants) :
                  LET r1 == NextTenant([r EXCEPT !.todo = q,
                                                 !.files = MigrationFiles(nfiles)])
                  IN /\ Set(p, r1)
                     /\ tenantConnections' = GetTenantDb(r1.target)
                     /\ pools' = PoolsAfterGet(r1.target)
    /\ UNCHANGED <<tenants, schemas, trackTables, applied, tables, nfiles,
                   hist, hook, users>>

\* a run on the current tenant's schema ended with an error (ghost)
HistCrash(r) ==
    IF r.inRun /\ r.target \in schemas
    THEN HistRun(hist, r.target, FALSE, 0)
    ELSE hist

\* line 38: CREATE SCHEMA IF NOT EXISTS "<tenant.schemaName>"
MtCreateSchema(p) ==
    LET r == proc[p]
    IN /\ r.pc = "mt_schema"
       /\ \/ /\ Fault
             /\ Set(p, Crashed(r, "create_schema", TRUE))
             /\ UNCHANGED schemas
          \/ /\ NoFault
             /\ schemas' = schemas \cup {r.target}
             /\ Set(p, [r EXCEPT !.pc = "mt_table", !.inRun = TRUE])
       /\ UNCHANGED <<tenants, trackTables, applied, tables, nfiles,
                      tenantConnections, calls, hist, hook, users, pools>>

\* line 41-47: CREATE TABLE IF NOT EXISTS "_migrations" (search path: the schema)
MtCreateTable(p) ==
    LET r == proc[p]
    IN /\ r.pc = "mt_table"
       /\ \/ /\ Fault
             /\ Set(p, Crashed(r, "create_table", TRUE))
             /\ hist' = HistCrash(r)
             /\ UNCHANGED trackTables
          \/ /\ NoFault
             /\ IF r.target \in schemas
                THEN /\ trackTables' = trackTables \cup {r.target}
                     /\ Set(p, [r EXCEPT !.pc = "mt_tables_exist"])
                     /\ UNCHANGED hist
                ELSE /\ Set(p, Crashed(r, "create_table", FALSE))
                     /\ hist' = HistCrash(r)
                     /\ UNCHANGED trackTables
       /\ UNCHANGED <<tenants, schemas, applied, tables, nfiles,
                      tenantConnections, calls, hook, users, pools>>

\* line 50-55: SELECT EXISTS (SELECT FROM information_schema.tables WHERE
\* table_name = 'users'): no table_schema condition, so any schema's table counts
UsersTableVisible(s) == \E x \in SchemaNames : Baseline \in tables[x]

\* line 50-58
MtTablesExist(p) ==
    LET r == proc[p]
    IN /\ r.pc = "mt_tables_exist"
       /\ \/ /\ Fault
             /\ Set(p, Crashed(r, "tables_exist", TRUE))
             /\ hist' = HistCrash(r)
          \/ /\ NoFault
             /\ Set(p, [r EXCEPT !.pc = "mt_select",
                                 !.hasExistingTables = UsersTableVisible(r.target)])
             /\ UNCHANGED hist
       /\ UNCHANGED <<tenants, schemas, trackTables, applied, tables, nfiles,
                      tenantConnections, calls, hook, users, pools>>

\* The loop of line 80-103 from position i on: the next file to run, or the
\* end of this tenant (line 105) and the next tenant.
MtContinue(r, i) ==
    LET j == NextPending(r.files, r.appliedSet, i)
    IN IF j = 0
       THEN NextTenant([r EXCEPT !.migrated = r.migrated \cup {r.target}])
       ELSE [r EXCEPT !.pc = "mt_execute", !.i = j]

\* a run on schema s ended without error (ghost)
HistDone(r, r2) ==
    IF r2.pc \in {"mt_schema", "done"} /\ r.target \in schemas
    THEN HistRun(hist, r.target, TRUE, Len(r.files))
    ELSE hist

\* line 60-70: SELECT filename FROM "_migrations", and the bootstrap test
MtSelectApplied(p) ==
    LET r == proc[p]
        s == r.target
    IN /\ r.pc = "mt_select"
       /\ \/ /\ Fault
             /\ Set(p, Crashed(r, "select", TRUE))
             /\ hist' = HistCrash(r)
             /\ UNCHANGED <<tenantConnections, pools>>
          \/ /\ NoFault
             /\ IF s \in trackTables
                THEN LET r1 == [r EXCEPT !.appliedSet = AppliedRows(s),
                                         !.trackBefore = applied[s],
                                         !.prevOk = (SchemaHist(s).lastOk = Len(r.files)),
                                         !.resumed = PrevRunFailed(s)]
                         r2 == IF r.hasExistingTables /\ r1.appliedSet = {}
                               THEN [r1 EXCEPT !.pc = "mt_mark"]
                               ELSE MtContinue(r1, 0)
                     IN /\ Set(p, r2)
                        /\ hist' = HistDone(r, r2)
                        /\ tenantConnections' =
                              IF r2.pc = "mt_schema"
                              THEN GetTenantDb(r2.target)
                              ELSE tenantConnections
                        /\ pools' =
                              IF r2.pc = "mt_schema"
                              THEN PoolsAfterGet(r2.target)
                              ELSE pools
                ELSE /\ Set(p, Crashed(r, "select", FALSE))
                     /\ hist' = HistCrash(r)
                     /\ UNCHANGED <<tenantConnections, pools>>
       /\ UNCHANGED <<tenants, schemas, trackTables, applied, tables, nfiles,
                      calls, hook, users>>

\* line 71-76: INSERT ... VALUES ('0000_steep_hedge_knight.sql') ON CONFLICT DO
\* NOTHING; appliedSet.add(...)
MtMarkBaseline(p) ==
    LET r == proc[p]
        s == r.target
    IN /\ r.pc = "mt_mark"
       /\ \/ /\ Fault
             /\ Set(p, Crashed(r, "mark", TRUE))
             /\ hist' = HistCrash(r)
             /\ UNCHANGED <<applied, tenantConnections, pools>>
          \/ /\ NoFault
             /\ IF s \in trackTables
                THEN LET r2 == MtContinue([r EXCEPT !.appliedSet = @ \cup {Baseline}], 0)
                         h1 == IF Baseline \in tables[s] THEN hist
                               ELSE [hist EXCEPT !.of[s].clean = FALSE]
                     IN /\ applied' = [applied EXCEPT ![s] = @ \cup {Baseline}]
                        /\ Set(p, r2)
                        /\ hist' = IF r2.pc \in {"mt_schema", "done"}
                                   THEN HistRun(h1, s, TRUE, Len(r.files))
                                   ELSE h1
                        /\ tenantConnections' =
                              IF r2.pc = "mt_schema"
                              THEN GetTenantDb(r2.target)
                              ELSE tenantConnections
                        /\ pools' =
                              IF r2.pc = "mt_schema"
                              THEN PoolsAfterGet(r2.target)
                              ELSE pools
                ELSE /\ Set(p, Crashed(r, "mark", FALSE))
                     /\ hist' = HistCrash(r)
                     /\ UNCHANGED <<applied, tenantConnections, pools>>
       /\ UNCHANGED <<tenants, schemas, trackTables, tables, nfiles, calls, hook, users>>

\* line 86-97: read the file, substitute the schema name, execute it
MtExecute(p) ==
    LET r == proc[p]
        s == r.target
        f == r.files[r.i]
        r1 == [r EXCEPT !.ran = Append(r.ran, f)]
    IN /\ r.pc = "mt_execute"
       /\ \/ /\ Fault
             /\ Set(p, Crashed([r1 EXCEPT !.failAt = f], "execute", TRUE))
             /\ hist' = HistCrash(r)
             /\ UNCHANGED tables
          \/ /\ NoFault
             /\ IF CanExecute(s, f)
                THEN /\ tables' = [tables EXCEPT ![s] = @ \cup {f}]
                     /\ hist' = [hist EXCEPT !.of[s].execCount[f] = @ + 1]
                     /\ Set(p, [r1 EXCEPT !.pc = "mt_record"])
                ELSE /\ Set(p, Crashed([r1 EXCEPT !.failAt = f], "execute", FALSE))
                     /\ hist' = HistCrash(r)
                     /\ UNCHANGED tables
       /\ UNCHANGED <<tenants, schemas, trackTables, applied, nfiles,
                      tenantConnections, calls, hook, users, pools>>

\* line 99-102: INSERT INTO "_migrations" (filename) VALUES ($1)
MtRecord(p) ==
    LET r == proc[p]
        s == r.target
        f == r.files[r.i]
    IN /\ r.pc = "mt_record"
       /\ \/ /\ Fault
             /\ Set(p, Crashed([r EXCEPT !.failAt = f], "record", TRUE))
             /\ hist' = HistCrash(r)
             /\ UNCHANGED <<applied, tenantConnections, pools>>
          \/ /\ NoFault
             /\ IF CanRecord(s, f)
                THEN LET r2 == MtContinue(r, r.i)
                     IN /\ applied' = [applied EXCEPT ![s] = @ \cup {f}]
                        /\ Set(p, r2)
                        /\ hist' = HistDone(r, r2)
                        /\ tenantConnections' =
                              IF r2.pc = "mt_schema"
                              THEN GetTenantDb(r2.target)
                              ELSE tenantConnections
                        /\ pools' =
                              IF r2.pc = "mt_schema"
                              THEN PoolsAfterGet(r2.target)
                              ELSE pools
                ELSE /\ Set(p, Crashed([r EXCEPT !.failAt = f], "record", FALSE))
                     /\ hist' = HistCrash(r)
                     /\ UNCHANGED <<applied, tenantConnections, pools>>
       /\ UNCHANGED <<tenants, schemas, trackTables, tables, nfiles, calls, hook, users>>

FleetSteps(p) ==
    \/ MtCreateSchema(p)
    \/ MtCreateTable(p)
    \/ MtTablesExist(p)
    \/ MtSelectApplied(p)
    \/ MtMarkBaseline(p)
    \/ MtExecute(p)
    \/ MtRecord(p)

\* the caller has the result (or the error); the call's frame is gone
Return(p) ==
    /\ \/ proc[p].pc = "done" /\ proc[p].caller = "none"
       \/ proc[p].pc = "responded"
    /\ Set(p, Idle)
    /\ UNCHANGED <<tenants, schemas, trackTables, applied, tables, nfiles,
                   tenantConnections, faults, calls, hist, hook, users, pools>>

\* drizzle-kit generate writes the next migration file between deployments
AddMigrationFile ==
    /\ AllIdle
    /\ nfiles < MaxFiles
    /\ nfiles' = nfiles + 1
    /\ UNCHANGED <<tenants, schemas, trackTables, applied, tables,
                   tenantConnections, proc, faults, calls, hist, hook, users, pools>>

CreateSteps(p) ==
    \/ CtLookupBySlug(p)
    \/ CtUpdate(p)
    \/ CtInsert(p)
    \/ CtCreateSchema(p)
    \/ AmCreateTable(p)
    \/ AmSelectApplied(p)
    \/ AmExecute(p)
    \/ AmRecord(p)
    \/ CtCatch(p)
    \/ DtDropSchema(p)
    \/ DtDeleteRow(p)
    \/ Return(p)

\* calls made one after the other
Next ==
    \/ AddMigrationFile
    \/ \E p \in SeqProcs : CreateTenant(p, Ids, Names, Slugs)
    \/ \E p \in SeqProcs : MigrateTenants(p)
    \/ \E p \in SeqProcs : CreateSteps(p)
    \/ \E p \in SeqProcs : FleetSteps(p)

Spec == Init /\ [][Next]_vars

\* two createTenant calls in flight (duplicate or near-simultaneous events)
NextConc ==
    \/ \E p \in Procs : CreateTenant(p, Ids, ConcNames, ConcSlugs)
    \/ \E p \in Procs : CreateSteps(p)

SpecConc == Init /\ [][NextConc]_vars

\* ------------------------------------------------ POST organization.created
\* route.ts line 108-119: the handler answers (ghost: the delivery is remembered)
Respond(r, code) == [r EXCEPT !.pc = "responded", !.resp = code]

HistHook(r, code) ==
    [hist EXCEPT !.lastHook = [id |-> r.id, slug |-> r.slug, by |-> r.createdBy,
                               resp |-> code]]

\* route.ts line 59-79: a verified organization.created event that carries a
\* slug; the handler calls createTenant(id, name, slug)
PostOrganizationCreated(p) ==
    /\ proc[p].pc = "idle"
    /\ calls < MaxCalls
    /\ calls' = calls + 1
    /\ \E id \in Ids, name \in ConcNames, slug \in Slugs, by \in CreatedBy :
          StartCreate(p, [Idle EXCEPT !.caller = "webhook", !.createdBy = by,
                                      !.prevHook = hist.lastHook],
                      id, name, slug)
    /\ UNCHANGED <<tenants, schemas, trackTables, applied, tables, nfiles,
                   tenantConnections, hist, hook, users, pools>>

\* route.ts line 80-90 and 113-119: createTenant has returned or thrown; the
\* created_by test; clerk.users.getUser(created_by)
WhGetUser(p) ==
    LET r == proc[p]
        ok == r.res.status = "ok" /\ r.createdBy # ""
    IN /\ r.pc = "done"
       /\ r.caller = "webhook"
       /\ \/ /\ Fault
             /\ ok
             /\ Set(p, Respond(r, 500))
             /\ hist' = HistHook(r, 500)
          \/ /\ NoFault
             /\ IF ok
                THEN /\ Set(p, [r EXCEPT !.pc = "wh_insert"])
                     /\ UNCHANGED hist
                ELSE /\ Set(p, Respond(r, 500))
                     /\ hist' = HistHook(r, 500)
       /\ UNCHANGED <<tenants, schemas, trackTables, applied, tables, nfiles,
                      tenantConnections, calls, hook, users, pools>>

\* INSERT INTO "users": the table must exist, id is its primary key
CanInsertUser(s, u) == Baseline \in tables[s] /\ u \notin users[s]

\* route.ts line 93-118: getTenantDb(result.schemaName), insert the owner,
\* answer 200; any error is answered with status 500
WhInsertOwner(p) ==
    LET r == proc[p]
        s == r.res.schemaName
        r1 == [r EXCEPT !.conn = PoolOf(s), !.hit = CacheHas(s)]
    IN /\ r.pc = "wh_insert"
       /\ tenantConnections' = GetTenantDb(s)
       /\ pools' = PoolsAfterGet(s)
       /\ \/ /\ Fault
             /\ Set(p, Respond(r1, 500))
             /\ hist' = HistHook(r, 500)
             /\ UNCHANGED users
          \/ /\ NoFault
             /\ IF CanInsertUser(s, r.createdBy)
                THEN /\ users' = [users EXCEPT ![s] = @ \cup {r.createdBy}]
                     /\ Set(p, Respond(r1, 200))
                     /\ hist' = HistHook(r, 200)
                ELSE /\ Set(p, Respond(r1, 500))
                     /\ hist' = HistHook(r, 500)
                     /\ UNCHANGED users
       /\ UNCHANGED <<tenants, schemas, trackTables, applied, tables, nfiles,
                      calls, hook>>

\* deliveries of organization.created, one after the other
NextHook ==
    \/ \E p \in SeqProcs : PostOrganizationCreated(p)
    \/ \E p \in SeqProcs : CreateSteps(p)
    \/ \E p \in SeqProcs : WhGetUser(p)
    \/ \E p \in SeqProcs : WhInsertOwner(p)

SpecHook == Init /\ [][NextHook]_vars

\* ------------------------------------------- organization.created: the slug
NameChars == {"A", "c", "1", " ", "-", "!"}

BoundedNames == UNION {[1..n -> NameChars] : n \in 1..MaxNameLen}

LowerAlnum == {"a", "c", "1"}

\* String.prototype.toLowerCase, one character
ToLowerCase(ch) == IF ch = "A" THEN "a" ELSE ch

\* .replace(/[^a-z0-9]/g, "-")
HyphenateNonAlnum(str) ==
    [i \in 1..Len(str) |-> IF str[i] \in LowerAlnum THEN str[i] ELSE "-"]

\* .replace(/-+/g, "-"): every run of hyphens becomes one hyphen
SqueezeHyphens(str) ==
    SelectSeq([i \in 1..Len(str) |->
                  IF str[i] = "-" /\ i > 1 /\ str[i - 1] = "-" THEN "" ELSE str[i]],
              LAMBDA ch : ch # "")

\* route.ts line 74-78: slug || name.toLowerCase().replace(...).replace(...)
SlugFallback(slug, name) ==
    IF slug # <<>> THEN slug
    ELSE SqueezeHyphens(HyphenateNonAlnum([i \in 1..Len(name) |-> ToLowerCase(name[i])]))

\* route.ts line 59-79: the event's name and slug become createTenant's slug
OrganizationCreated ==
    /\ hook.name = <<>>
    /\ \E name \in BoundedNames, slug \in Slugs \cup {<<>>} :
         hook' = [name |-> name, slug |-> SlugFallback(slug, name),
                  schemaName |-> SchemaNameOf(SlugFallback(slug, name)),
                  given |-> slug # <<>>]
    /\ UNCHANGED <<tenants, schemas, trackTables, applied, tables, nfiles,
                   tenantConnections, proc, faults, calls, hist, users, pools>>

NextSlug == OrganizationCreated

SpecSlug == Init /\ [][NextSlug]_vars

\* ------------------------------------------- the connection cache and its close
\* A request handler calls getTenantDb(s): the call is synchronous, it creates
\* and stores a pool when the Map has none and hands out the pool of the Map.
\* `stale` records whether that pool had been ended when the call returned.
RequestTenantDb(p, s) ==
    /\ proc[p].pc = "idle"
    /\ calls < MaxCalls
    /\ calls' = calls + 1
    /\ tenantConnections' = GetTenantDb(s)
    /\ pools' = PoolsAfterGet(s)
    /\ Set(p, [Idle EXCEPT !.pc = "done", !.op = "request", !.target = s,
                           !.conn = PoolOf(s), !.hit = CacheHas(s),
                           !.stale = <<s, PoolOf(s)>> \in pools.ended])
    /\ UNCHANGED <<tenants, schemas, trackTables, applied, tables, nfiles,
                   faults, hist, hook, users>>

\* tenantConnections.clear()
Cleared == [s \in SchemaNames |-> 0]

\* connection.end() is called on the pool of the k-th entry of the Map
EndEntry(k) ==
    [pools EXCEPT !.ended = @ \cup {<<pools.order[k], tenantConnections[pools.order[k]]>>},
                  !.iter = k]

\* closeTenantConnections, from the call to its first await: the loop takes the
\* first entry of the Map and calls end() on it; with an empty Map it goes
\* straight to clear().
CloseTenantConnections ==
    /\ pools.iter = 0
    /\ pools' = IF pools.order = <<>> THEN pools ELSE EndEntry(1)
    /\ UNCHANGED <<tenants, schemas, trackTables, applied, tables, nfiles,
                   tenantConnections, proc, faults, calls, hist, hook, users>>

\* closeTenantConnections, when the awaited end() resolves: the iterator of the
\* Map is live, so it goes on to the next entry in insertion order, entries set
\* since the loop began included; when none is left the Map is cleared.
CloseResume ==
    /\ pools.iter >= 1
    /\ IF pools.iter < Len(pools.order)
       THEN /\ pools' = EndEntry(pools.iter + 1)
            /\ UNCHANGED tenantConnections
       ELSE /\ tenantConnections' = Cleared
            /\ pools' = [pools EXCEPT !.order = <<>>, !.iter = 0]
    /\ UNCHANGED <<tenants, schemas, trackTables, applied, tables, nfiles,
                   proc, faults, calls, hist, hook, users>>

NextCache ==
    \/ \E p \in Procs, s \in SchemaNames : RequestTenantDb(p, s)
    \/ \E p \in Procs : Return(p)
    \/ CloseTenantConnections
    \/ CloseResume

SpecCache == Init /\ [][NextCache]_vars

\* -------------------------------------------------------- getApiTenantContext
\* the function returns an error object with a status and no handle
ApiError(r, code) == [r EXCEPT !.pc = "responded", !.resp = code, !.tenantDb = 0]

\* tenantFromHeader || orgSlug
TenantSlug(header, orgSlug) == IF header # <<>> THEN header ELSE orgSlug

\* (mutation) the requested tenant is not compared with the caller's organization
SlugMismatchIgnored(tenantSlug, orgSlug) == FALSE

\* part_015 line 172: tenantSlug !== orgSlug
SlugMismatch(tenantSlug, orgSlug) == tenantSlug # orgSlug

\* part_015 line 157-174: auth(), headers() and the two checks made before any
\* query
GetApiTenantContext(p) ==
    /\ proc[p].pc = "idle"
    /\ calls < MaxCalls
    /\ calls' = calls + 1
    /\ \E userId \in UserIds, orgSlug \in OptSlugs, header \in OptSlugs :
          LET r == [Idle EXCEPT !.op = "api", !.userId = userId,
                                !.orgSlug = orgSlug,
                                !.tenantSlug = TenantSlug(header, orgSlug)]
          IN IF userId = "" \/ orgSlug = <<>>
             THEN Set(p, ApiError(r, 401))
             ELSE IF SlugMismatch(r.tenantSlug, orgSlug)
                  THEN Set(p, ApiError(r, 403))
                  ELSE Set(p, [r EXCEPT !.pc = "api_tenant"])
    /\ UNCHANGED <<tenants, schemas, trackTables, applied, tables, nfiles,
                   tenantConnections, faults, hist, hook, users, pools>>

\* part_015 line 176-182: TenantManager.getTenantBySlug(tenantSlug), then
\* getTenantDb(tenantRecord.schemaName)
ApiGetTenantBySlug(p) ==
    LET r == proc[p]
    IN /\ r.pc = "api_tenant"
       /\ \/ /\ Fault
             /\ Set(p, ApiError([r EXCEPT !.faulted = TRUE], 500))
             /\ UNCHANGED <<tenantConnections, pools>>
          \/ /\ NoFault
             /\ IF RowsBySlug(r.tenantSlug) = {}
                THEN /\ Set(p, ApiError(r, 404))
                     /\ UNCHANGED <<tenantConnections, pools>>
                ELSE LET s == (CHOOSE x \in RowsBySlug(r.tenantSlug) : TRUE).schemaName
                     IN /\ tenantConnections' = GetTenantDb(s)
                        /\ pools' = PoolsAfterGet(s)
                        /\ Set(p, [r EXCEPT !.pc = "api_user", !.target = s,
                                            !.conn = PoolOf(s),
                                            !.hit = CacheHas(s)])
       /\ UNCHANGED <<tenants, schemas, trackTables, applied, tables, nfiles,
                      calls, hist, hook, users>>

\* (mutation) the caller's row is not required
UserRowFoundAlways(s, u) == TRUE

\* part_015 line 184-192: SELECT ... FROM "<schema>"."users" WHERE id = userId
UserRowFound(s, u) == u \in users[s]

\* part_015 line 184-205: the query for the caller's row; the context with the
\* handle is returned when the row is found. The query fails when the schema
\* has no users table; every failure is answered with status 500.
ApiSelectUser(p) ==
    LET r == proc[p]
    IN /\ r.pc = "api_user"
       /\ \/ /\ Fault
             /\ Set(p, ApiError([r EXCEPT !.faulted = TRUE], 500))
          \/ /\ NoFault
             /\ IF Baseline \notin tables[r.target]
                THEN Set(p, ApiError(r, 500))
                ELSE IF ~UserRowFound(r.target, r.userId)
                     THEN Set(p, ApiError(r, 404))
                     ELSE Set(p, [r EXCEPT !.pc = "responded", !.resp = 0,
                                           !.tenantDb = r.conn])
       /\ UNCHANGED <<tenants, schemas, trackTables, applied, tables, nfiles,
                      tenantConnections, calls, hist, hook, users, pools>>

\* tenants provisioned by the webhook and API requests, one after the other
NextApi ==
    \/ NextHook
    \/ \E p \in SeqProcs : GetApiTenantContext(p)
    \/ \E p \in SeqProcs : ApiGetTenantBySlug(p)
    \/ \E p \in SeqProcs : ApiSelectUser(p)

SpecApi == Init /\ [][NextApi]_vars

\* ===================================================================== claims
CreateDone(p) == proc[p].op = "create" /\ proc[p].pc = "done"

FleetDone(p) == proc[p].op = "fleet" /\ proc[p].pc = "done"

\* the call found no row with its identity and none with its slug when it began
BrandNew(r) == \A x \in r.pre : x.id # r.id /\ x.slug # r.slug

\* a row with the call's identity or with its slug existed when it began
PreExisting(r) == \E x \in r.pre : x.id = r.id \/ x.slug = r.slug

AllFiles == SeqRange(MigrationFiles(nfiles))

\* C1: a createTenant call for a brand-new tenant that fails after its registry
\* insert ends with no registry row of that identity and no schema tenant_<slug>.
C1_FailedNewTenantLeavesNoTrace ==
    \A p \in Procs :
        LET r == proc[p]
        IN (CreateDone(p) /\ r.res.status = "error" /\ BrandNew(r) /\ r.inserted)
           => (RowsById(r.id) = {} /\ r.schemaName \notin schemas)

\* C2: the rollback of a createTenant call removes only what that call
\* inserted: every registry row and every physical schema that existed when
\* the call began still exists when it has ended.
C2_RollbackOnlyOwnInsert ==
    \A p \in Procs :
        LET r == proc[p]
        IN CreateDone(p) =>
              /\ \A x \in r.pre : \E y \in tenants : y.slug = x.slug
              /\ r.preSchemas \subseteq schemas

\* C3: when tenant K of a fleet run fails, the tenants after K are still
\* attempted and brought up to date, and exactly K is reported as failed.
C3_FleetIsolatesFailure ==
    \A p \in Procs :
        LET r == proc[p]
        IN (FleetDone(p) /\ r.failedAt # {}) =>
              \A j \in 1..Len(r.todo) :
                  j > r.k => /\ r.todo[j].schemaName \in r.attempted
                             /\ applied[r.todo[j].schemaName] = SeqRange(r.files)

\* C4: two interleaved createTenant calls with the same new identity and slug,
\* with no database operation failing for a reason of its own, both return the
\* same schema name, and leave one row and one schema.
C4_ConcurrentSameTenant ==
    \A p, q \in Procs :
        LET r == proc[p]
            t == proc[q]
        IN (p # q /\ CreateDone(p) /\ CreateDone(q) /\ r.id = t.id
               /\ r.slug = t.slug /\ BrandNew(r) /\ BrandNew(t)
               /\ faults = 0) =>
              /\ r.res.status = "ok" /\ t.res.status = "ok"
              /\ r.res.schemaName = t.res.schemaName
              /\ Cardinality(RowsById(r.id)) = 1
              /\ r.schemaName \in schemas

RunActiveOn(s) ==
    \E p \in Procs : proc[p].target = s /\ proc[p].pc \notin {"idle", "done"}

\* C5: a run that follows a successful run on the same schema with the same
\* file listing executes no file; on a schema all of whose runs succeeded,
\* every listed file has run exactly once and is recorded exactly once.
C5_SecondRunIsNoop ==
    /\ \A p \in Procs : proc[p].prevOk => proc[p].ran = <<>>
    /\ \A s \in schemas :
          LET h == SchemaHist(s)
          IN (h.clean /\ h.runs >= 2 /\ ~RunActiveOn(s)) =>
                /\ applied[s] = 1..h.lastOk
                /\ \A f \in 1..h.lastOk : h.execCount[f] = 1

C5_Witness ==
    \E p \in Procs :
        LET r == proc[p]
        IN /\ r.pc = "done" /\ r.res.status = "ok" /\ r.prevOk /\ r.ran = <<>>
           /\ SchemaHist(r.target).clean /\ SchemaHist(r.target).runs >= 2
           /\ Len(r.files) = 2

\* C6: when createTenant returns successfully, the filenames recorded in the
\* returned schema's _migrations table are exactly the .sql files present.
C6_SuccessMeansFullyMigrated ==
    \A p \in Procs :
        LET r == proc[p]
        IN (CreateDone(p) /\ r.res.status = "ok") =>
              /\ r.res.schemaName \in trackTables
              /\ applied[r.res.schemaName] = AllFiles

C6_Witness ==
    \E p \in Procs :
        LET r == proc[p]
        IN /\ CreateDone(p) /\ r.res.status = "ok" /\ r.path = "remap"
           /\ r.ran = <<2>> /\ applied[r.res.schemaName] = {1, 2}

\* C7: a createTenant call that follows a successful call with the same
\* identity leaves the number of registry rows unchanged, and when it returns
\* it returns existing = true and the schema name the first call returned.
C7_SameIdentityIdempotent ==
    \A p \in Procs :
        LET r == proc[p]
        IN (CreateDone(p) /\ r.prevCall.ok /\ r.prevCall.id = r.id) =>
              /\ Cardinality(tenants) = Cardinality(r.pre)
              /\ r.res.status = "ok" =>
                    /\ r.res.existing
                    /\ r.res.schemaName = r.prevCall.schemaName

C7_Witness ==
    \E p \in Procs :
        LET r == proc[p]
        IN /\ CreateDone(p) /\ r.prevCall.ok /\ r.prevCall.id = r.id
           /\ r.res.status = "ok" /\ r.res.existing
           /\ r.schemaName # r.res.schemaName

\* C8: when a migration file k fails in a createTenant call for a tenant whose
\* row existed before the call, nothing is rolled back: the row and the schema
\* exist afterwards, and the recorded files are those recorded before plus the
\* pending files before k.
C8_ExistingTenantFailureKeepsPrefix ==
    \A p \in Procs :
        LET r == proc[p]
        IN (CreateDone(p) /\ r.res.status = "error" /\ r.failAt # 0 /\ PreExisting(r)) =>
              /\ ~r.dropped
              /\ \E y \in tenants : y.schemaName = r.target
              /\ r.target \in schemas
              /\ applied[r.target] =
                    r.trackBefore \cup {f \in SeqRange(r.files) : f < r.failAt}

C8_Witness ==
    \E p \in Procs :
        LET r == proc[p]
        IN /\ CreateDone(p) /\ r.res.status = "error" /\ r.failAt = 2
           /\ PreExisting(r) /\ r.trackBefore = {} /\ applied[r.target] = {1}
           /\ r.err = "execute"

\* the row that owned the call's slug under another identity when it began
SlugOwner(r) == CHOOSE x \in r.pre : x.slug = r.slug

SlugCollision(r) ==
    /\ r.op = "create"
    /\ \A x \in r.pre : x.id # r.id
    /\ \E x \in r.pre : x.slug = r.slug

\* C9: a createTenant call whose slug is owned by another identity does not
\* fail on the collision: the row's identity becomes the new one, the row count
\* is unchanged, the old identity is gone, and the call returns existing = true
\* with the row's schema name; it ends with an error only if a database or
\* filesystem operation or a migration of its own failed.
C9_SlugCollisionRemaps ==
    \A p \in Procs :
        LET r == proc[p]
        IN SlugCollision(r) =>
              /\ r.path = "remap" =>
                    /\ \E y \in tenants : /\ y.slug = r.slug /\ y.id = r.id
                                          /\ y.schemaName = SlugOwner(r).schemaName
                    /\ Cardinality(tenants) = Cardinality(r.pre)
                    /\ RowsById(SlugOwner(r).id) = {}
              /\ (r.pc = "done" /\ r.res.status = "error") =>
                    (r.faulted \/ r.failAt # 0)
              /\ (r.pc = "done" /\ r.res.status = "ok") =>
                    /\ r.path = "remap"
                    /\ r.res.existing
                    /\ r.res.schemaName = SlugOwner(r).schemaName

C9_Witness ==
    \E p \in Procs :
        LET r == proc[p]
        IN /\ SlugCollision(r) /\ r.pc = "done" /\ r.res.status = "ok"
           /\ r.res.existing /\ RowsById(r.id) # {}
           /\ RowsById(SlugOwner(r).id) = {}

HasAlnum(str) == \E i \in 1..Len(str) : ToLowerCase(str[i]) \in LowerAlnum

\* the slug the specification describes: lowercase, runs of other characters
\* as one hyphen, no leading and no trailing hyphen
TrimHyphens(str) ==
    LET keep == {i \in 1..Len(str) : str[i] # "-"}
    IN IF keep = {} THEN <<>>
       ELSE LET lo == CHOOSE i \in keep : \A j \in keep : i <= j
                hi == CHOOSE i \in keep : \A j \in keep : j <= i
            IN SubSeq(str, lo, hi)

\* C10: without a slug in the event, the derived slug is the lowercased name
\* with runs of non-alphanumerics as one hyphen and no leading or trailing
\* hyphen, so the schema name after "tenant_" has only lowercase letters,
\* digits and single underscores and no trailing underscore.
C10_DerivedSlugIsClean ==
    (~hook.given /\ HasAlnum(hook.name)) =>
        LET sl == hook.slug
            sn == hook.schemaName
        IN /\ sl = TrimHyphens(sl)
           /\ \A i \in 1..Len(sn) : sn[i] \in LowerAlnum \cup {"t", "e", "n", "_"}
           /\ \A i \in 1..(Len(sn) - 1) : ~(sn[i] = "_" /\ sn[i + 1] = "_")
           /\ sn[Len(sn)] # "_"

\* C11: in a fleet run the baseline is recorded without being executed only for
\* a tenant whose own schema holds the baseline tables: a schema whose
\* _migrations names the baseline holds those tables, and the baseline is
\* executed for a tenant with an empty tracking table whose own schema has none.
C11_BaselineMarkedIffOwnTables ==
    /\ \A s \in schemas : Baseline \in applied[s] => Baseline \in tables[s]
    /\ \A p \in Procs :
          LET r == proc[p]
          IN (r.op = "fleet" /\ r.pc = "mt_execute" /\ r.trackBefore = {}
                 /\ r.files[r.i] = Baseline)
             => Baseline \notin tables[r.target]

\* C12: the connection cache holds at most one pool per schema name (no second
\* pool is ever created for a name), and a getTenantDb(s) call made while s is
\* cached hands out the pool that the first call for s created.
C12_OnePoolPerSchema ==
    /\ \A s \in SchemaNames : tenantConnections[s] <= 1
    /\ \A p \in Procs :
          LET r == proc[p]
          IN r.conn # 0 => /\ r.conn = 1
                           /\ tenantConnections[r.target] = r.conn

C12_Witness ==
    \E p \in Procs :
        LET r == proc[p]
        IN /\ r.hit /\ r.conn = 1 /\ tenantConnections[r.target] = 1
           /\ \E s \in SchemaNames : s # r.target /\ tenantConnections[s] = 1

\* the schema names of the tenants a fleet run listed
Listed(r) == {r.todo[j].schemaName : j \in 1..Len(r.todo)}

\* C13: a fleet run in which a statement of some tenant's migration failed ends
\* with exit status 1; it ends with exit status 0 only if no step failed and
\* every listed tenant (possibly none) went through its migration loop and has
\* every listed file recorded.
C13_FleetExitStatus ==
    \A p \in Procs :
        LET r == proc[p]
        IN FleetDone(p) =>
              /\ (r.k > 0 /\ r.err # "none") => r.res.status = "exit1"
              /\ r.res.status = "exit0" =>
                    /\ r.err = "none" /\ r.failAt = 0 /\ ~r.faulted
                    /\ r.migrated = Listed(r)
                    /\ \A s \in Listed(r) : applied[s] = SeqRange(r.files)
              /\ r.res.status \in {"exit0", "exit1"}

C13_Witness ==
    \E p \in Procs :
        LET r == proc[p]
        IN /\ FleetDone(p) /\ r.res.status = "exit1" /\ r.k = 2
           /\ r.err = "execute" /\ Cardinality(r.migrated) = 1

\* the other outcome: a run over two tenants that ends with exit status 0
C13_WitnessSuccess ==
    \E p \in Procs :
        LET r == proc[p]
        IN /\ FleetDone(p) /\ r.res.status = "exit0" /\ Len(r.todo) = 2
           /\ Len(r.ran) > 0

\* the delivery repeats the one before it, which was answered with success
Redelivery(r) ==
    /\ r.caller = "webhook"
    /\ r.pc = "responded"
    /\ r.prevHook = [id |-> r.id, slug |-> r.slug, by |-> r.createdBy, resp |-> 200]

\* C14: when the same valid organization.created event is delivered a second
\* time and no operation fails for a reason of its own, the second delivery is
\* answered with success, and there is one registry row of the organization
\* and one owner row in its tenant schema.
C14_RedeliveryIsHandled ==
    \A p \in Procs :
        LET r == proc[p]
        IN (Redelivery(r) /\ faults = 0) =>
              /\ r.resp = 200
              /\ Cardinality(RowsById(r.id)) = 1
              /\ users[r.schemaName] = {r.createdBy}

\* C15: no two registry rows share an identity, a slug or a schema name.
C15_RegistryUnique ==
    \A x, y \in tenants :
        (x.id = y.id \/ x.slug = y.slug \/ x.schemaName = y.schemaName) => x = y

\* an insert was refused because another slug's row holds the schema name
C15_Witness ==
    \E p \in Procs :
        LET r == proc[p]
        IN /\ r.op = "create" /\ r.err = "insert" /\ ~r.faulted
           /\ \E x \in tenants : x.schemaName = r.schemaName /\ x.slug # r.slug

\* C16: a createTenant call that finds a row of its identity changes no row; a
\* call that finds a row of its slug changes nothing but the identity and the
\* name of that row: every row that existed when the call began is still
\* there with its slug and its schema name.
C16_SlugAndSchemaNameFrozen ==
    \A p \in Procs :
        LET r == proc[p]
        IN (r.op = "create" /\ r.path \in {"existing", "remap"}) =>
              /\ Cardinality(tenants) = Cardinality(r.pre)
              /\ \A x \in r.pre :
                    \E y \in tenants :
                        /\ y.slug = x.slug
                        /\ y.schemaName = x.schemaName
                        /\ (r.path = "existing" \/ x.slug # r.slug) => y = x

C16_Witness ==
    \E p \in Procs :
        LET r == proc[p]
        IN /\ CreateDone(p) /\ r.path = "remap" /\ r.slug = <<"a", "-", "b">>
           /\ \E x \in r.pre : x.slug = r.slug /\ x.id # r.id /\ x.name # r.name
           /\ \E y \in tenants : y.id = r.id /\ y.slug = r.slug /\ y \notin r.pre

\* the call is inside a run on its target schema
InRunLoop(r) == r.pc \in {"am_execute", "am_record", "mt_execute", "mt_record"}

\* C17: within one run on one schema the files are executed in strictly
\* ascending filename order, and when a file starts executing, every file
\* executed before it in the run is recorded.
C17_AscendingOneAtATime ==
    \A p \in Procs :
        LET r == proc[p]
            n == Len(r.ran)
        IN /\ \A a, b \in 1..n : a < b => r.ran[a] < r.ran[b]
           /\ InRunLoop(r) =>
                 /\ \A a \in 1..(n - 1) : r.ran[a] \in applied[r.target]
                 /\ r.pc \in {"am_execute", "mt_execute"} =>
                       /\ SeqRange(r.ran) \subseteq applied[r.target]
                       /\ \A a \in 1..n : r.ran[a] < r.files[r.i]

C17_Witness ==
    \E p \in Procs :
        LET r == proc[p]
        IN /\ r.op = "create" /\ r.pc = "am_record" /\ r.ran = <<1, 2>>
           /\ applied[r.target] = {1} /\ tables[r.target] = {1, 2}

\* the same case in a fleet run
C17_WitnessFleet ==
    \E p \in Procs :
        LET r == proc[p]
        IN /\ r.op = "fleet" /\ r.pc = "mt_record" /\ r.ran = <<1, 2>>
           /\ applied[r.target] = {1}

\* the execution of a file has failed in the call's run
ExecutionFailed(r) == r.failAt # 0 /\ r.err # "record"

\* C18: once the execution of a file has failed in a run, the run executes and
\* records nothing more: the failed file is the last one executed, it and the
\* later files are not recorded by the run, the files the run recorded before
\* stay recorded, and the call ends with an error (createTenant throws, the
\* fleet script exits with status 1).
C18_FailureHaltsRun ==
    \A p \in Procs :
        LET r == proc[p]
            n == Len(r.ran)
        IN ExecutionFailed(r) =>
              /\ r.pc \in {"ct_catch", "dt_drop", "dt_delete", "done", "responded"}
              /\ r.ran[n] = r.failAt
              /\ \A a \in 1..(n - 1) : r.ran[a] \in applied[r.target]
              /\ {f \in applied[r.target] : f >= r.failAt} \subseteq r.appliedSet
              /\ r.pc \in {"done", "responded"} => r.res.status \in {"error", "exit1"}

C18_Witness ==
    \E p \in Procs :
        LET r == proc[p]
        IN /\ CreateDone(p) /\ ExecutionFailed(r) /\ r.path = "new"
           /\ r.ran = <<1, 2>> /\ r.failAt = 2 /\ applied[r.target] = {1}
           /\ r.res.status = "error"

\* the createTenant call has read the tracking table of its target schema
InCreateRun(r) ==
    /\ r.op = "create"
    /\ \/ r.pc \in {"am_execute", "am_record"}
       \/ /\ r.pc \in {"ct_catch", "done"}
          /\ r.err \in {"execute", "record"}
       \/ r.pc = "done" /\ r.res.status = "ok"

\* the filenames the call's run has inserted into the tracking table
RecordedByRun(r) == applied[r.target] \ r.trackBefore

\* C19: every filename that a createTenant run has recorded is one that the
\* run executed in that schema without error, the record step of a file is
\* reached only straight from the successful execution of that file, and a
\* file whose execution failed is not recorded.
C19_RecordedOnlyAfterExecution ==
    \A p \in Procs :
        LET r == proc[p]
            n == Len(r.ran)
        IN InCreateRun(r) =>
              /\ RecordedByRun(r) \subseteq SeqRange(r.ran)
              /\ RecordedByRun(r) \subseteq tables[r.target]
              /\ \A f \in RecordedByRun(r) : SchemaHist(r.target).execCount[f] >= 1
              /\ ExecutionFailed(r) => r.failAt \notin applied[r.target]
              /\ r.pc = "am_record" =>
                    /\ r.failAt = 0
                    /\ n > 0 /\ r.ran[n] = r.files[r.i]
                    /\ r.files[r.i] \in tables[r.target]
                    /\ SeqRange(r.ran) \ {r.files[r.i]} \subseteq applied[r.target]

C19_Witness ==
    \E p \in Procs :
        LET r == proc[p]
        IN /\ CreateDone(p) /\ r.res.status = "ok" /\ r.path = "new"
           /\ r.ran = <<1, 2>> /\ RecordedByRun(r) = {1, 2}
           /\ tables[r.target] = {1, 2}

\* C20: when a run on a schema has ended, with success or with any error, the
\* files executed in the schema are the files recorded in its _migrations.
C20_ExecuteAndRecordAtomic ==
    \A p \in Procs :
        LET r == proc[p]
        IN (r.pc = "done" /\ r.inRun /\ r.target \in schemas) =>
              tables[r.target] = applied[r.target]

\* C21: the filenames recorded for a schema are a prefix of the ordered list of
\* migration files: no recorded file has an unrecorded predecessor.
C21_RecordedIsPrefix ==
    \A s \in SchemaNames :
        \A f \in applied[s] : \A g \in 1..f : g \in applied[s]

\* a proper prefix left by a run that failed at the second file, after an
\* earlier run on the same schema
C21_Witness ==
    \E p \in Procs :
        LET r == proc[p]
        IN /\ r.pc = "done" /\ r.inRun /\ r.failAt = 2 /\ Len(r.files) = 2
           /\ applied[r.target] = {1}
           /\ SchemaHist(r.target).runs >= 2

\* C22: when createTenant for a new tenant finds the migration directory
\* unreadable, it has inserted no registry row and created no schema.
C22_DirectoryCheckedFirst ==
    \A p \in Procs :
        LET r == proc[p]
        IN (r.op = "create" /\ r.err = "readdir" /\ BrandNew(r)) =>
              /\ ~r.inserted
              /\ r.schemaName \notin schemas \ r.preSchemas

\* C23: with two runs interleaved on one schema and no operation failing for a
\* reason of its own, a run never starts executing a file for which the
\* tracking table holds a record, and no file runs to completion twice.
C23_NoExecutionOfRecordedFile ==
    faults = 0 =>
        /\ \A p \in Procs :
              LET r == proc[p]
              IN r.pc \in {"am_execute", "mt_execute"} =>
                    r.files[r.i] \notin applied[r.target]
        /\ \A s \in SchemaNames, f \in 1..MaxFiles : SchemaHist(s).execCount[f] <= 1

\* the files without a record when the run read the tracking table, in order
PendingAtStart(r) == SortedSeq(SeqRange(r.files) \ r.trackBefore)

\* C24: a createTenant run that follows a failed run on the same schema
\* executes the files that had no record, in ascending order and no others,
\* and when it succeeds every listed file is recorded.
C24_ResumeFromTrackingTable ==
    \A p \in Procs :
        LET r == proc[p]
            n == Len(r.ran)
        IN (r.op = "create" /\ r.resumed) =>
              /\ n <= Len(PendingAtStart(r))
              /\ \A a \in 1..n : r.ran[a] = PendingAtStart(r)[a]
              /\ (r.pc = "done" /\ r.res.status = "ok") =>
                    /\ r.ran = PendingAtStart(r)
                    /\ applied[r.target] = SeqRange(r.files)

C24_Witness ==
    \E p \in Procs :
        LET r == proc[p]
        IN /\ CreateDone(p) /\ r.res.status = "ok" /\ r.resumed
           /\ r.trackBefore = {1} /\ r.ran = <<2>> /\ applied[r.target] = {1, 2}

\* no call is between its first and its last statement
NoCallInProgress == \A p \in Procs : proc[p].pc \in {"idle", "done"}

\* C25: whenever no createTenant call is in progress, every registry row has
\* its physical schema and every tenant schema has a registry row.
C25_RowIffSchema ==
    NoCallInProgress =>
        /\ \A x \in tenants : x.schemaName \in schemas
        /\ \A s \in schemas : \E x \in tenants : x.schemaName = s

\* C26: when a file has executed and the insert of its record fails, the error
\* that reaches createTenant's caller is of another kind than the error of a
\* failed execution.
C26_RecordFailureIsDistinct ==
    \A p \in Procs :
        LET r == proc[p]
        IN (CreateDone(p) /\ r.res.status = "error" /\ r.err = "record"
               /\ r.files[r.i] \in tables[r.target]) =>
              ErrorKind(r.err) # ErrorKind("execute")

\* C27: when two interleaved createTenant calls with different identities and
\* the same slug have ended, and no operation failed for a reason of its own,
\* a registry row of that slug exists with its physical schema, and the schema
\* named by every call that returned success exists.
C27_SameSlugCallsKeepEachOther ==
    \A p, q \in Procs :
        LET r == proc[p]
            t == proc[q]
        IN (p # q /\ CreateDone(p) /\ CreateDone(q) /\ r.id # t.id
               /\ r.slug = t.slug /\ faults = 0) =>
              /\ \E x \in tenants : x.slug = r.slug /\ x.schemaName \in schemas
              /\ r.res.status = "ok" => r.res.schemaName \in schemas
              /\ t.res.status = "ok" => t.res.schemaName \in schemas

RequestDone(p) == proc[p].op = "request" /\ proc[p].pc = "done"

\* every pool that was made and never ended is the pool the Map holds for its schema
UnendedPoolsCached ==
    \A s \in SchemaNames : \A k \in 1..pools.made[s] :
        <<s, k>> \notin pools.ended => tenantConnections[s] = k

\* C28: under any interleaving of getTenantDb calls with a running
\* closeTenantConnections, getTenantDb never returns a handle backed by a pool
\* that has already been ended, and once closeTenantConnections has completed
\* every pool it did not end is still reachable through the cache.
C28_CloseNeverLeavesEndedPoolInCache ==
    /\ \A p \in Procs : RequestDone(p) => ~proc[p].stale
    /\ pools.iter = 0 => UnendedPoolsCached

\* C29: when a createTenant call ends with an error, every registry row that
\* existed when the call began is in the registry afterwards with the same
\* identity, name, slug and schema name.
C29_FailedCallLeavesOldRowsAlone ==
    \A p \in Procs :
        LET r == proc[p]
        IN (CreateDone(p) /\ r.res.status = "error") => r.pre \subseteq tenants

ApiDone(p) == proc[p].op = "api" /\ proc[p].pc = "responded"

Authenticated(r) == r.userId # "" /\ r.orgSlug # <<>>

\* a handle is returned only with no error status, for the schema of the
\* registry row whose slug is the caller's organization slug, to a caller who
\* has a row in that schema's users table
HandleOnlyForOwnTenant(r) ==
    r.tenantDb # 0 =>
        /\ r.resp = 0
        /\ Authenticated(r)
        /\ \E x \in tenants : x.slug = r.orgSlug /\ x.schemaName = r.target
        /\ r.userId \in users[r.target]
        /\ r.tenantDb = tenantConnections[r.target]

\* the statuses of the two checks made before any query
RefusedBeforeQuery(r) ==
    /\ ~Authenticated(r) => r.resp = 401 /\ r.tenantDb = 0
    /\ (Authenticated(r) /\ r.tenantSlug # r.orgSlug) => r.resp = 403 /\ r.tenantDb = 0

\* the caller is authenticated and asks for the tenant of their organization
Admitted(r) == Authenticated(r) /\ r.tenantSlug = r.orgSlug

UnknownTenant(r) == RowsBySlug(r.tenantSlug) = {}

\* the tenant is registered and the caller has no row in its users table
AbsentFromUsers(r) ==
    \E x \in RowsBySlug(r.tenantSlug) : r.userId \notin users[x.schemaName]

\* the tenant is registered, its schema has the users table, and the caller has
\* no row in it
AbsentFromUsersTable(r) ==
    \E x \in RowsBySlug(r.tenantSlug) :
        Baseline \in tables[x.schemaName] /\ r.userId \notin users[x.schemaName]

C30_WitnessRefused ==
    \E p \in Procs :
        LET r == proc[p]
        IN /\ ApiDone(p) /\ r.resp = 403 /\ r.tenantDb = 0
           /\ r.userId = "u1" /\ r.orgSlug = <<"c">>
           /\ \E x \in RowsBySlug(r.tenantSlug) : "u1" \in users[x.schemaName]

====
